---- MODULE Spec2Model ----
(***************************************************************************)
(* A model of the OSTransform class of src/server/transform.js: the bounds *)
(* validator, the grid reference format check, the grid reference codec    *)
(* and the projector adapters; and of the HTTP server of server.js that    *)
(* serves them on five routes from one shared instance.                    *)
(*                                                                         *)
(* Numbers.  A JavaScript number is a record [k, v]: k = "num" for a       *)
(* finite value, whose v is the value in hundredths (337297 m is 33729700, *)
(* 699999.9 is 69999990, -8.74 degrees is -874), and k = "nan", "inf" or   *)
(* "ninf" for NaN, Infinity and -Infinity (v = 0).                         *)
(*                                                                         *)
(* Strings.  A JavaScript string is a sequence of one-character strings.   *)
(*                                                                         *)
(* Objects.  A coordinate object is a record whose DOMAIN is the set of    *)
(* its own properties.  The empty object {} is Empty.  A thrown exception  *)
(* is a record with tag "throw".                                           *)
(***************************************************************************)
EXTENDS Integers, Sequences, FiniteSets, TLC

VARIABLES maxBounds, proj4Strict, op, coordinates, gridref, decimals, result, calls,
          inflight

vars == <<maxBounds, proj4Strict, op, coordinates, gridref, decimals, result, calls,
          inflight>>

(***************************************************************************)
(* JavaScript numbers                                                      *)
(***************************************************************************)
\* Math.pow(10, n) for an integer n >= 0.
RECURSIVE Pow10(_)
Pow10(n) == IF n <= 0 THEN 1 ELSE 10 * Pow10(n - 1)

\* A finite number is kept in hundredths.
Unit == Pow10(2)

Num(v) == [k |-> "num", v |-> v]

Metres(n) == Num(n * Unit)

NaN == [k |-> "nan", v |-> 0]

PosInf == [k |-> "inf", v |-> 0]

NegInf == [k |-> "ninf", v |-> 0]

IsFinite(a) == a.k = "num"

\* Position of a non-NaN number on the extended real line.
Ord(a) == IF a.k = "inf" THEN 2000000000
          ELSE IF a.k = "ninf" THEN -2000000000 ELSE a.v

\* a < b and a > b of JavaScript: false as soon as one side is NaN.
Lt(a, b) == a.k # "nan" /\ b.k # "nan" /\ Ord(a) < Ord(b)

Gt(a, b) == Lt(b, a)

\* Math.floor(a / d) for a positive integer d.
FloorDiv(a, d) == IF IsFinite(a) THEN Num((a.v \div (d * Unit)) * Unit) ELSE a

\* a % d of JavaScript for a positive integer d: the sign of the dividend;
\* NaN for a NaN or infinite dividend.
JsRem(a, d) ==
    IF ~IsFinite(a) THEN NaN
    ELSE IF a.v >= 0 THEN Num(a.v % (d * Unit))
    ELSE Num(-((-a.v) % (d * Unit)))

\* Math.floor(a)
Floor(a) == IF IsFinite(a) THEN Num((a.v \div Unit) * Unit) ELSE a

IsInteger(a) == IsFinite(a) /\ a.v % Unit = 0

(***************************************************************************)
(* JavaScript strings                                                      *)
(***************************************************************************)
Digits == <<"0", "1", "2", "3", "4", "5", "6", "7", "8", "9">>

UpperLetters == <<"A", "B", "C", "D", "E", "F", "G", "H", "I", "J", "K", "L", "M",
                  "N", "O", "P", "Q", "R", "S", "T", "U", "V", "W", "X", "Y", "Z">>

LowerLetters == <<"a", "b", "c", "d", "e", "f", "g", "h", "i", "j", "k", "l", "m",
                  "n", "o", "p", "q", "r", "s", "t", "u", "v", "w", "x", "y", "z">>

Range(s) == {s[j] : j \in DOMAIN s}

\* String.prototype.indexOf for a one-character needle: 0-based, -1 if absent.
indexOf(s, ch) ==
    IF ch \in Range(s)
    THEN (CHOOSE j \in DOMAIN s : s[j] = ch /\ \A h \in 1..(j - 1) : s[h] # ch) - 1
    ELSE -1

toUpperCase(s) ==
    [j \in DOMAIN s |->
        IF s[j] \in Range(LowerLetters)
        THEN UpperLetters[indexOf(LowerLetters, s[j]) + 1] ELSE s[j]]

IsWhitespace(ch) == ch \in {" ", "\t"}

RECURSIVE trimStart(_)
trimStart(s) ==
    IF s # <<>> /\ IsWhitespace(Head(s)) THEN trimStart(Tail(s)) ELSE s

RECURSIVE trimEnd(_)
trimEnd(s) ==
    IF s # <<>> /\ IsWhitespace(s[Len(s)])
    THEN trimEnd(SubSeq(s, 1, Len(s) - 1)) ELSE s

\* String.prototype.trim
trim(s) == trimEnd(trimStart(s))

\* s.replace(/ /g, '')
RECURSIVE removeSpaces(_)
removeSpaces(s) ==
    IF s = <<>> THEN <<>>
    ELSE IF Head(s) = " " THEN removeSpaces(Tail(s))
    ELSE <<Head(s)>> \o removeSpaces(Tail(s))

\* s.substring(a, b) with 0-based a <= b <= s.length
substring(s, a, b) == SubSeq(s, a + 1, b)

RECURSIVE NatToString(_)
NatToString(n) ==
    IF n < 10 THEN <<Digits[n + 1]>>
    ELSE NatToString(n \div 10) \o <<Digits[(n % 10) + 1]>>

\* String(a) for an integer-valued or non-finite number.
NumToString(a) ==
    IF a.k = "nan" THEN <<"N", "a", "N">>
    ELSE IF a.k = "inf" THEN <<"I", "n", "f", "i", "n", "i", "t", "y">>
    ELSE IF a.k = "ninf" THEN <<"-", "I", "n", "f", "i", "n", "i", "t", "y">>
    ELSE IF a.v < 0 THEN <<"-">> \o NatToString((-a.v) \div Unit)
    ELSE NatToString(a.v \div Unit)

\* s.padStart(n, '0')
RECURSIVE padStart(_, _)
padStart(s, n) == IF Len(s) >= n THEN s ELSE padStart(<<"0">> \o s, n)

\* The numeric value of a string of decimal digits (the string-to-number
\* conversion that s * m applies to its left operand).
RECURSIVE DigitsValue(_)
DigitsValue(s) ==
    IF s = <<>> THEN 0
    ELSE DigitsValue(SubSeq(s, 1, Len(s) - 1)) * 10 + indexOf(Digits, s[Len(s)])

(***************************************************************************)
(* Results                                                                 *)
(***************************************************************************)
\* The empty object {}.
Empty == [tag |-> "empty"]

\* The outcome of a call that throws instead of returning.
Throw(e) == [tag |-> "throw", error |-> e]

\* Object.keys(o): the tag of a record is not a property.
ObjectKeys(o) == DOMAIN o \ {"tag"}

\* The value undefined where a string is expected, and String(undefined).
undefinedValue == <<"undefined">>

undefinedString == <<"u", "n", "d", "e", "f", "i", "n", "e", "d">>

\* The value undefined where a number is expected (an omitted argument).
undefinedNum == [k |-> "undefined", v |-> 0]

(***************************************************************************)
(* OSTransform.options                                                     *)
(***************************************************************************)
\* A plausible slip: the projected extent closed at the round 700000 x 1300000.
optionsRound ==
    [projected  |-> <<<<Num(0), Num(0)>>, <<Num(70000000), Num(130000000)>>>>,
     geographic |-> <<<<Num(-874), Num(4984)>>, <<Num(196), Num(6090)>>>>]

options ==
    [projected  |-> <<<<Num(0), Num(0)>>, <<Num(69999990), Num(129999990)>>>>,
     geographic |-> <<<<Num(-874), Num(4984)>>, <<Num(196), Num(6090)>>>>]

hasOwnProperty(c, f) == f \in ObjectKeys(c)

\* c.f: a missing property reads as undefined, which compares and computes
\* as NaN.
Get(c, f) == IF hasOwnProperty(c, f) THEN c[f] ELSE NaN

(***************************************************************************)
(* OSTransform._checkBounds                                                *)
(***************************************************************************)
\* A plausible slip: the lower bounds of the projected extent left untested.
_checkBoundsUpperOnly(c) ==
    LET isValid ==
            IF hasOwnProperty(c, "ea") /\ hasOwnProperty(c, "no")
            THEN ~(\/ Gt(c.ea, maxBounds.projected[2][1])
                   \/ Gt(c.no, maxBounds.projected[2][2]))
            ELSE IF hasOwnProperty(c, "lat") /\ hasOwnProperty(c, "lng")
            THEN ~(\/ Lt(c.lng, maxBounds.geographic[1][1])
                   \/ Gt(c.lng, maxBounds.geographic[2][1])
                   \/ Lt(c.lat, maxBounds.geographic[1][2])
                   \/ Gt(c.lat, maxBounds.geographic[2][2]))
            ELSE TRUE
    IN [valid |-> isValid,
        message |-> IF isValid THEN "" ELSE "Coordinates out of range."]

\* A plausible slip: || for && in the shape test, so that one field of the
\* projected pair is enough to run the projected test.
_checkBoundsEitherField(c) ==
    LET isValid ==
            IF hasOwnProperty(c, "ea") \/ hasOwnProperty(c, "no")
            THEN ~(\/ Lt(Get(c, "ea"), maxBounds.projected[1][1])
                   \/ Gt(Get(c, "ea"), maxBounds.projected[2][1])
                   \/ Lt(Get(c, "no"), maxBounds.projected[1][2])
                   \/ Gt(Get(c, "no"), maxBounds.projected[2][2]))
            ELSE IF hasOwnProperty(c, "lat") /\ hasOwnProperty(c, "lng")
            THEN ~(\/ Lt(c.lng, maxBounds.geographic[1][1])
                   \/ Gt(c.lng, maxBounds.geographic[2][1])
                   \/ Lt(c.lat, maxBounds.geographic[1][2])
                   \/ Gt(c.lat, maxBounds.geographic[2][2]))
            ELSE TRUE
    IN [valid |-> isValid,
        message |-> IF isValid THEN "" ELSE "Coordinates out of range."]

\* A plausible slip: the two shapes tested in the other order.
_checkBoundsGeographicFirst(c) ==
    LET isValid ==
            IF hasOwnProperty(c, "lat") /\ hasOwnProperty(c, "lng")
            THEN ~(\/ Lt(c.lng, maxBounds.geographic[1][1])
                   \/ Gt(c.lng, maxBounds.geographic[2][1])
                   \/ Lt(c.lat, maxBounds.geographic[1][2])
                   \/ Gt(c.lat, maxBounds.geographic[2][2]))
            ELSE IF hasOwnProperty(c, "ea") /\ hasOwnProperty(c, "no")
            THEN ~(\/ Lt(c.ea, maxBounds.projected[1][1])
                   \/ Gt(c.ea, maxBounds.projected[2][1])
                   \/ Lt(c.no, maxBounds.projected[1][2])
                   \/ Gt(c.no, maxBounds.projected[2][2]))
            ELSE TRUE
    IN [valid |-> isValid,
        message |-> IF isValid THEN "" ELSE "Coordinates out of range."]

_checkBounds(c) ==
    LET isValid ==
            IF hasOwnProperty(c, "ea") /\ hasOwnProperty(c, "no")
            THEN ~(\/ Lt(c.ea, maxBounds.projected[1][1])
                   \/ Gt(c.ea, maxBounds.projected[2][1])
                   \/ Lt(c.no, maxBounds.projected[1][2])
                   \/ Gt(c.no, maxBounds.projected[2][2]))
            ELSE IF hasOwnProperty(c, "lat") /\ hasOwnProperty(c, "lng")
            THEN ~(\/ Lt(c.lng, maxBounds.geographic[1][1])
                   \/ Gt(c.lng, maxBounds.geographic[2][1])
                   \/ Lt(c.lat, maxBounds.geographic[1][2])
                   \/ Gt(c.lat, maxBounds.geographic[2][2]))
            ELSE TRUE
    IN [valid |-> isValid,
        message |-> IF isValid THEN "" ELSE "Coordinates out of range."]

(***************************************************************************)
(* OSTransform._validateGridRef                                            *)
(***************************************************************************)
\* A plausible slip: a letter too many in the first character class.
firstLettersWithZ == {"T", "H", "J", "O", "N", "S", "Z"}

firstLetters == {"T", "H", "J", "O", "N", "S"}

gridLetters == <<"V", "W", "X", "Y", "Z", "Q", "R", "S", "T", "U", "L", "M", "N",
                 "O", "P", "F", "G", "H", "J", "K", "A", "B", "C", "D", "E">>

maxGroup == 5

IsDigits(s, from, n) == \A j \in from..(from + n - 1) : s[j] \in Range(Digits)

\* s matches /^[THJONS][VWXYZQRSTULMNOPFGHJKABCDE] ?[0-9]{1,5} ?[0-9]{1,5}$/
regexMatch(s) ==
    /\ Len(s) >= 2
    /\ s[1] \in firstLetters
    /\ s[2] \in Range(gridLetters)
    /\ \E sp1 \in 0..1, a \in 1..maxGroup, sp2 \in 0..1, b \in 1..maxGroup :
          /\ Len(s) = 2 + sp1 + a + sp2 + b
          /\ sp1 = 1 => s[3] = " "
          /\ IsDigits(s, 3 + sp1, a)
          /\ sp2 = 1 => s[3 + sp1 + a] = " "
          /\ IsDigits(s, 3 + sp1 + a + sp2, b)

_validateGridRef(g) ==
    LET match == regexMatch(toUpperCase(g))
        isValid == (Len(removeSpaces(g)) % 2 = 0) /\ match
    IN [valid |-> isValid,
        message |-> IF isValid THEN "" ELSE "Invalid grid reference."]

(***************************************************************************)
(* OSTransform.toGridRef                                                   *)
(***************************************************************************)
\* A two-letter tile code as a string.
C2(a, b) == <<a, b>>

prefixes ==
    << <<C2("S", "V"), C2("S", "W"), C2("S", "X"), C2("S", "Y"), C2("S", "Z"), C2("T", "V"), C2("T", "W")>>,
       <<C2("S", "Q"), C2("S", "R"), C2("S", "S"), C2("S", "T"), C2("S", "U"), C2("T", "Q"), C2("T", "R")>>,
       <<C2("S", "L"), C2("S", "M"), C2("S", "N"), C2("S", "O"), C2("S", "P"), C2("T", "L"), C2("T", "M")>>,
       <<C2("S", "F"), C2("S", "G"), C2("S", "H"), C2("S", "J"), C2("S", "K"), C2("T", "F"), C2("T", "G")>>,
       <<C2("S", "A"), C2("S", "B"), C2("S", "C"), C2("S", "D"), C2("S", "E"), C2("T", "A"), C2("T", "B")>>,
       <<C2("N", "V"), C2("N", "W"), C2("N", "X"), C2("N", "Y"), C2("N", "Z"), C2("O", "V"), C2("O", "W")>>,
       <<C2("N", "Q"), C2("N", "R"), C2("N", "S"), C2("N", "T"), C2("N", "U"), C2("O", "Q"), C2("O", "R")>>,
       <<C2("N", "L"), C2("N", "M"), C2("N", "N"), C2("N", "O"), C2("N", "P"), C2("O", "L"), C2("O", "M")>>,
       <<C2("N", "F"), C2("N", "G"), C2("N", "H"), C2("N", "J"), C2("N", "K"), C2("O", "F"), C2("O", "G")>>,
       <<C2("N", "A"), C2("N", "B"), C2("N", "C"), C2("N", "D"), C2("N", "E"), C2("O", "A"), C2("O", "B")>>,
       <<C2("H", "V"), C2("H", "W"), C2("H", "X"), C2("H", "Y"), C2("H", "Z"), C2("J", "V"), C2("J", "W")>>,
       <<C2("H", "Q"), C2("H", "R"), C2("H", "S"), C2("H", "T"), C2("H", "U"), C2("J", "Q"), C2("J", "R")>>,
       <<C2("H", "L"), C2("H", "M"), C2("H", "N"), C2("H", "O"), C2("H", "P"), C2("J", "L"), C2("J", "M")>> >>

\* String.prototype.concat of the pieces of a template literal.
Concat(ss) == LET RECURSIVE cat(_)
                  cat(q) == IF q = <<>> THEN <<>> ELSE Head(q) \o cat(Tail(q))
              IN cat(ss)

thinsp == <<"&", "t", "h", "i", "n", "s", "p", ";">>

\* a[j] of JavaScript for an array a (a sequence) and a number j: undefined
\* unless j is an integer index of the array.
IsIndex(a, j) == IsInteger(j) /\ (j.v \div Unit) \in 0..(Len(a) - 1)

\* A plausible slip: the residuals padded to 4 digits.
toGridRefPad4(c) ==
    LET test == _checkBounds(c)
        x == FloorDiv(Get(c, "ea"), 100000)
        y == FloorDiv(Get(c, "no"), 100000)
        row == prefixes[(y.v \div Unit) + 1]
        prefix == IF IsIndex(row, x) THEN row[(x.v \div Unit) + 1] ELSE undefinedValue
        prefixString == IF prefix = undefinedValue THEN undefinedString ELSE prefix
        e == padStart(NumToString(Floor(JsRem(Get(c, "ea"), 100000))), 4)
        n == padStart(NumToString(Floor(JsRem(Get(c, "no"), 100000))), 4)
    IN IF ~test.valid THEN Empty
       ELSE IF ~IsIndex(prefixes, y) THEN Throw("TypeError")
       ELSE [tag |-> "gridref",
             text |-> Concat(<<prefixString, <<" ">>, e, <<" ">>, n>>),
             html |-> Concat(<<prefixString, thinsp, e, thinsp, n>>),
             letters |-> prefix,
             eastings |-> e,
             northings |-> n]

toGridRef(c) ==
    LET test == _checkBounds(c)
        x == FloorDiv(Get(c, "ea"), 100000)
        y == FloorDiv(Get(c, "no"), 100000)
        row == prefixes[(y.v \div Unit) + 1]
        prefix == IF IsIndex(row, x) THEN row[(x.v \div Unit) + 1] ELSE undefinedValue
        prefixString == IF prefix = undefinedValue THEN undefinedString ELSE prefix
        e == padStart(NumToString(Floor(JsRem(Get(c, "ea"), 100000))), 5)
        n == padStart(NumToString(Floor(JsRem(Get(c, "no"), 100000))), 5)
    IN IF ~test.valid THEN Empty
       ELSE IF ~IsIndex(prefixes, y) THEN Throw("TypeError")
       ELSE [tag |-> "gridref",
             text |-> Concat(<<prefixString, <<" ">>, e, <<" ">>, n>>),
             html |-> Concat(<<prefixString, thinsp, e, thinsp, n>>),
             letters |-> prefix,
             eastings |-> e,
             northings |-> n]

(***************************************************************************)
(* OSTransform.fromGridRef                                                 *)
(***************************************************************************)
\* a % b of JavaScript on integers, b > 0: the sign of the dividend.
IntRem(a, b) == IF a >= 0 THEN a % b ELSE -((-a) % b)

\* A plausible slip: the false-origin shift of the eastings used for the northings.
majorNorthingShifted(ref) ==
    (indexOf(gridLetters, ref[1]) \div 5) * 500000 - 1000000

\* A plausible slip: the row of the second letter taken with % instead of /.
minorNorthingRem(ref) == IntRem(indexOf(gridLetters, ref[2]), 5) * 100000

\* A plausible slip: the scale factor one power of ten short.
mShort(i) == Pow10(4 - i)

\* ref is the upper-case reference without spaces; ref[1] is ref[0] of the code.
majorEasting(ref) == IntRem(indexOf(gridLetters, ref[1]), 5) * 500000 - 1000000

majorNorthing(ref) == (indexOf(gridLetters, ref[1]) \div 5) * 500000 - 500000

minorEasting(ref) == IntRem(indexOf(gridLetters, ref[2]), 5) * 100000

minorNorthing(ref) == (indexOf(gridLetters, ref[2]) \div 5) * 100000

m(i) == Pow10(5 - i)

fromGridRef(g0) ==
    LET g == trim(g0)
        test == _validateGridRef(g)
        ref == removeSpaces(toUpperCase(g))
        \* ref.length - 2 is even once the reference is valid
        i == (Len(ref) - 2) \div 2
        e == majorEasting(ref) + minorEasting(ref)
                + DigitsValue(substring(ref, 2, i + 2)) * m(i)
        n == majorNorthing(ref) + minorNorthing(ref)
                + DigitsValue(substring(ref, i + 2, Len(ref))) * m(i)
    IN IF ~test.valid THEN Empty
       ELSE [tag |-> "en", ea |-> Metres(e), no |-> Metres(n)]

(***************************************************************************)
(* The external projection library (import proj4).  Its numeric result is  *)
(* outside this repository: a fixed pure function stands in for it.  What  *)
(* it does with a coordinate that is not finite depends on its version:    *)
(* it throws a TypeError (proj4Strict) or computes NaN.                    *)
(***************************************************************************)
proj4Throws(point) == proj4Strict /\ (~IsFinite(point[1]) \/ ~IsFinite(point[2]))

proj4(from, to, point) ==
    IF ~IsFinite(point[1]) \/ ~IsFinite(point[2]) THEN <<NaN, NaN>>
    ELSE IF from = "EPSG:27700"
    THEN <<Num(-874 + (point[1].v \div 65421)), Num(4984 + (point[2].v \div 117541))>>
    ELSE <<Num((point[1].v + 874) * 65421 + 37), Num((point[2].v - 4984) * 117541 + 58)>>

\* Number(a.toFixed(d)): a RangeError unless 0 <= d <= 100 (NaN counts as 0);
\* the model keeps two decimals, so that rounding shows for d < 2.
toFixedThrows(d) == d.k \in {"inf", "ninf"} \/ (IsFinite(d) /\ (d.v <= -Unit \/ d.v >= 101 * Unit))

toFixed(a, d) ==
    LET places == IF IsFinite(d) THEN IF d.v >= 0 THEN d.v \div Unit ELSE 0 ELSE 0
        q == Pow10(2 - places)
        mag == IF a.v >= 0 THEN a.v ELSE -a.v
        r == ((mag + (q \div 2)) \div q) * q
    IN IF ~IsFinite(a) \/ places >= 2 THEN a
       ELSE Num(IF a.v >= 0 THEN r ELSE -r)

\* A plausible slip: no default in the signature, so that an omitted decimals
\* reaches toFixed as undefined, which rounds to no decimals.
DefaultMissing(d, dflt) == IF d = undefinedNum THEN Num(0) ELSE d

\* A parameter default: decimals = dflt
Default(d, dflt) == IF d = undefinedNum THEN Num(dflt * Unit) ELSE d

(***************************************************************************)
(* OSTransform.toLatLng, fromLatLng, gridRefToLatLng                       *)
(***************************************************************************)
toLatLngDefault == 7

fromLatLngDefault == 2

toLatLng(c, d0) ==
    LET d == Default(d0, toLatLngDefault)
        test == _checkBounds(c)
        arg == <<Get(c, "ea"), Get(c, "no")>>
        point == proj4("EPSG:27700", "EPSG:4326", arg)
    IN IF ~test.valid THEN Empty
       ELSE IF proj4Throws(arg) THEN Throw("TypeError")
       ELSE IF toFixedThrows(d) THEN Throw("RangeError")
       ELSE [tag |-> "latlng", lat |-> toFixed(point[2], d), lng |-> toFixed(point[1], d)]

fromLatLng(c, d0) ==
    LET d == Default(d0, fromLatLngDefault)
        test == _checkBounds(c)
        arg == <<Get(c, "lng"), Get(c, "lat")>>
        point == proj4("EPSG:4326", "EPSG:27700", arg)
    IN IF ~test.valid THEN Empty
       ELSE IF proj4Throws(arg) THEN Throw("TypeError")
       ELSE IF toFixedThrows(d) THEN Throw("RangeError")
       ELSE [tag |-> "en", ea |-> toFixed(point[1], d), no |-> toFixed(point[2], d)]

\* A plausible slip: the decoded coordinate handed on without the test for {}.
gridRefToLatLngUnguarded(g, d0) ==
    LET d == Default(d0, toLatLngDefault)
        c == fromGridRef(g)
    IN toLatLng(c, d)

gridRefToLatLng(g, d0) ==
    LET d == Default(d0, toLatLngDefault)
        c == fromGridRef(g)
    IN IF Cardinality(ObjectKeys(c)) = 0 THEN Empty
       ELSE toLatLng(c, d)

(***************************************************************************)
(* The calls a method makes while it runs, in order: the validators and    *)
(* the projection library.  A call record names the callee and holds what  *)
(* was passed to it.                                                       *)
(***************************************************************************)
checkBoundsCall(c) ==
    [fn |-> "_checkBounds", coordinates |-> c, valid |-> _checkBounds(c).valid]

validateGridRefCall(g) ==
    [fn |-> "_validateGridRef", gridref |-> g, valid |-> _validateGridRef(g).valid]

proj4Call(from, to, point) ==
    [fn |-> "proj4", from |-> from, to |-> to, point |-> point]

toGridRefCalls(c) == <<checkBoundsCall(c)>>

fromGridRefCalls(g0) == <<validateGridRefCall(trim(g0))>>

toLatLngCalls(c, d0) ==
    <<checkBoundsCall(c)>>
    \o (IF _checkBounds(c).valid
        THEN <<proj4Call("EPSG:27700", "EPSG:4326", <<Get(c, "ea"), Get(c, "no")>>)>>
        ELSE <<>>)

fromLatLngCalls(c, d0) ==
    <<checkBoundsCall(c)>>
    \o (IF _checkBounds(c).valid
        THEN <<proj4Call("EPSG:4326", "EPSG:27700", <<Get(c, "lng"), Get(c, "lat")>>)>>
        ELSE <<>>)

gridRefToLatLngCalls(g, d0) ==
    LET c == fromGridRef(g)
    IN fromGridRefCalls(g)
       \o (IF Cardinality(ObjectKeys(c)) = 0 THEN <<>>
           ELSE toLatLngCalls(c, Default(d0, toLatLngDefault)))

(***************************************************************************)
(* The HTTP server of server.js.  A parameter value is a record with its   *)
(* JavaScript type: a string (query parameters arrive as strings), a       *)
(* number or null (from a JSON body).  A parameter object is a record with *)
(* tag "object" whose other fields are its parameters.                     *)
(***************************************************************************)
StringValue(s) == [t |-> "string", s |-> s, n |-> NaN]

NumberValue(n) == [t |-> "number", s |-> <<>>, n |-> n]

NullValue == [t |-> "null", s |-> <<>>, n |-> NaN]

Infinity == <<"I", "n", "f", "i", "n", "i", "t", "y">>

\* Number(s) for a string: whitespace trimmed, '' is 0, an optional sign,
\* decimal digits with at most one point (two decimals kept), Infinity;
\* anything else is NaN.
ParseParts(negative, whole, frac) ==
    IF IsDigits(whole, 1, Len(whole)) /\ IsDigits(frac, 1, Len(frac))
          /\ Len(whole) + Len(frac) > 0
    THEN Num((IF negative THEN -1 ELSE 1)
                * (DigitsValue(whole) * Unit
                     + DigitsValue(SubSeq(frac \o <<"0", "0">>, 1, 2))))
    ELSE NaN

ParseDecimal(negative, body, dot) ==
    IF dot < 0 THEN ParseParts(negative, body, <<>>)
    ELSE ParseParts(negative, substring(body, 0, dot), substring(body, dot + 1, Len(body)))

ParseSigned(negative, body) ==
    IF body = Infinity THEN (IF negative THEN NegInf ELSE PosInf)
    ELSE ParseDecimal(negative, body, indexOf(body, "."))

ParseTrimmed(s) ==
    IF s = <<>> THEN Num(0)
    ELSE ParseSigned(s[1] = "-", IF s[1] \in {"-", "+"} THEN Tail(s) ELSE s)

StringToNumber(s) == ParseTrimmed(trim(s))

\* Number(value)
Number(value) ==
    CASE value.t = "number" -> value.n
      [] value.t = "null" -> Num(0)
      [] value.t = "string" -> StringToNumber(value.s)

\* String(value)
String(value) ==
    CASE value.t = "string" -> value.s
      [] value.t = "null" -> <<"n", "u", "l", "l">>
      [] value.t = "number" -> NumToString(value.n)

\* !value
Falsy(value) ==
    CASE value.t = "string" -> value.s = <<>>
      [] value.t = "null" -> TRUE
      [] value.t = "number" -> value.n.k = "nan" \/ value.n = Num(0)

EmptyData == [tag |-> "object"]

\* data[key] = isNaN(value) ? value : Number(value)
QueryValue(value, number) ==
    IF number.k = "nan" THEN StringValue(value) ELSE NumberValue(number)

\* getRequestData: the query parameters if there are any, numbers parsed;
\* else the JSON body of a POST, {} if it does not parse; else {}.
getRequestData(req) ==
    IF ObjectKeys(req.query) # {}
    THEN [tag |-> "object"] @@
         [key \in ObjectKeys(req.query) |->
             QueryValue(req.query[key], StringToNumber(req.query[key]))]
    ELSE IF req.method = "POST"
    THEN (IF req.body.tag = "invalid" THEN EmptyData ELSE req.body)
    ELSE EmptyData

\* JSON.stringify, read back as the client reads it: a NaN or infinite
\* number is null, a property whose value is undefined is left out.
JsonNull == [k |-> "null", v |-> 0]

JSONstringify(data) ==
    CASE data.tag \in {"latlng", "en"} ->
            [f \in DOMAIN data |->
                IF f = "tag" THEN data.tag
                ELSE IF IsFinite(data[f]) THEN data[f] ELSE JsonNull]
      [] data.tag = "gridref" ->
            [f \in {g \in DOMAIN data : g = "tag" \/ data[g] # undefinedValue} |-> data[f]]
      [] OTHER -> data

jsonResponse(data, status) == [status |-> status, body |-> JSONstringify(data)]

ErrorBody(message) == [tag |-> "object", error |-> message]

\* What a handler did: its response and the calls it made on the transformer.
Outcome(response, trace) == [response |-> response, calls |-> trace]

\* A plausible slip: a route without its try/catch, so that an exception of
\* the transformer reaches the server's error handler.
ReplyUncaught(res, emptyMessage) ==
    IF res.tag = "throw"
    THEN jsonResponse([tag |-> "object", error |-> "Internal server error",
                       details |-> res.error], 500)
    ELSE IF Cardinality(ObjectKeys(res)) = 0
    THEN jsonResponse(ErrorBody(emptyMessage), 400)
    ELSE jsonResponse(res, 200)

\* The tail of every route: {} is a 400, a result a 200, an exception a 500
\* whose error is the exception's message (the model names it by its type).
Reply(res, emptyMessage) ==
    IF res.tag = "throw" THEN jsonResponse(ErrorBody(res.error), 500)
    ELSE IF Cardinality(ObjectKeys(res)) = 0
    THEN jsonResponse(ErrorBody(emptyMessage), 400)
    ELSE jsonResponse(res, 200)

\* const { ... } = data throws a TypeError when the body is the JSON null.
DestructuringThrows(data) == data.tag = "null"

\* decimals !== undefined ? Number(decimals) : undefined
DecimalsArgument(data) ==
    IF hasOwnProperty(data, "decimals") THEN Number(data.decimals) ELSE undefinedNum

MethodCall(name, argument, d, res) ==
    [fn |-> name, argument |-> argument, decimals |-> d, result |-> res]

\* A handler that answered without calling the transformer.
Refuse(message, status) == Outcome(jsonResponse(ErrorBody(message), status), <<>>)

\* A handler that called the transformer: res is what the call returned or
\* threw, trace the calls the method made.
Settle(name, argument, d, res, trace, emptyMessage) ==
    Outcome(Reply(res, emptyMessage), <<MethodCall(name, argument, d, res)>> \o trace)

toLatLngCalled(c, d) ==
    Settle("toLatLng", c, d, toLatLng(c, d), toLatLngCalls(c, d),
           "Invalid coordinates or out of bounds")

toLatLngHandler(data) ==
    IF DestructuringThrows(data) THEN Refuse("TypeError", 500)
    ELSE IF ~hasOwnProperty(data, "ea") \/ ~hasOwnProperty(data, "no")
    THEN Refuse("Missing required parameters: ea (easting) and no (northing)", 400)
    ELSE toLatLngCalled([ea |-> Number(data.ea), no |-> Number(data.no)],
                        DecimalsArgument(data))

toLatLngRoute(req) == toLatLngHandler(getRequestData(req))

fromLatLngCalled(c, d) ==
    Settle("fromLatLng", c, d, fromLatLng(c, d), fromLatLngCalls(c, d),
           "Invalid coordinates or out of bounds")

fromLatLngHandler(data) ==
    IF DestructuringThrows(data) THEN Refuse("TypeError", 500)
    ELSE IF ~hasOwnProperty(data, "lat") \/ ~hasOwnProperty(data, "lng")
    THEN Refuse("Missing required parameters: lat (latitude) and lng (longitude)", 400)
    ELSE fromLatLngCalled([lat |-> Number(data.lat), lng |-> Number(data.lng)],
                          DecimalsArgument(data))

fromLatLngRoute(req) == fromLatLngHandler(getRequestData(req))

toGridRefCalled(c) ==
    Settle("toGridRef", c, undefinedNum, toGridRef(c), toGridRefCalls(c),
           "Invalid coordinates or out of bounds")

toGridRefHandler(data) ==
    IF DestructuringThrows(data) THEN Refuse("TypeError", 500)
    ELSE IF ~hasOwnProperty(data, "ea") \/ ~hasOwnProperty(data, "no")
    THEN Refuse("Missing required parameters: ea (easting) and no (northing)", 400)
    ELSE toGridRefCalled([ea |-> Number(data.ea), no |-> Number(data.no)])

toGridRefRoute(req) == toGridRefHandler(getRequestData(req))

fromGridRefCalled(g) ==
    Settle("fromGridRef", [gridref |-> g], undefinedNum, fromGridRef(g), fromGridRefCalls(g),
           "Invalid grid reference")

fromGridRefHandler(data) ==
    IF DestructuringThrows(data) THEN Refuse("TypeError", 500)
    ELSE IF ~hasOwnProperty(data, "gridref") \/ Falsy(data.gridref)
    THEN Refuse("Missing required parameter: gridref (grid reference)", 400)
    ELSE fromGridRefCalled(String(data.gridref))

fromGridRefRoute(req) == fromGridRefHandler(getRequestData(req))

gridRefToLatLngCalled(g, d) ==
    Settle("gridRefToLatLng", [gridref |-> g], d, gridRefToLatLng(g, d), gridRefToLatLngCalls(g, d),
           "Invalid grid reference or out of bounds")

gridRefToLatLngHandler(data) ==
    IF DestructuringThrows(data) THEN Refuse("TypeError", 500)
    ELSE IF ~hasOwnProperty(data, "gridref") \/ Falsy(data.gridref)
    THEN Refuse("Missing required parameter: gridref (grid reference)", 400)
    ELSE gridRefToLatLngCalled(String(data.gridref), DecimalsArgument(data))

gridRefToLatLngRoute(req) == gridRefToLatLngHandler(getRequestData(req))

ApiPaths == {"/api/to-latlng", "/api/from-latlng", "/api/to-gridref",
             "/api/from-gridref", "/api/gridref-to-latlng"}

\* The paths of fetch that answer without waiting for the request's data:
\* the preflight, the health check and the 404 of an unknown path.
AnswersAtOnce(req) == req.method = "OPTIONS" \/ req.path \notin ApiPaths

AnswerAtOnce(req) ==
    IF req.method = "OPTIONS" THEN [status |-> 200, body |-> [tag |-> "null"]]
    ELSE IF req.path \in {"/health", "/"}
    THEN jsonResponse([tag |-> "object", status |-> "ok"], 200)
    ELSE jsonResponse(ErrorBody("Not found"), 404)

(***************************************************************************)
(* Inputs                                                                  *)
(***************************************************************************)
\* 100 km bands sampled: one below the table and one above it.
MaxEaBand == 7

MaxNoBand == 13

\* Digits per group sampled: one more than the format allows.
MaxDigits == 6

\* The largest decimals argument sampled: one more than toFixed allows.
MaxDecimals == 101

Band == 100000 * Unit

\* Positions inside a band, in hundredths of a metre.
Offsets == {0, 10, 3729700, 9999900, 9999990, 9999999}

CoarseOffsets == {0, 9999990, 9999999}

NonFinite == {NaN, PosInf, NegInf}

Eastings(offs) == {Num(b * Band + o) : b \in (-1)..MaxEaBand, o \in offs} \cup NonFinite

Northings(offs) == {Num(b * Band + o) : b \in (-1)..MaxNoBand, o \in offs} \cup NonFinite

Longitudes == {Num(v) : v \in {-875, -874, -873, -297, 0, 195, 196, 197}} \cup NonFinite

Latitudes == {Num(v) : v \in {4983, 4984, 4985, 5442, 6089, 6090, 6091, 6100}} \cup NonFinite

\* The coordinates of the examples of example-client.js.
ExampleObjects == {[ea |-> Metres(337297), no |-> Metres(503695)],
                   [ea |-> Metres(651409), no |-> Metres(313177)]}

ProjectedObjects(offs) == [ea : Eastings(offs), no : Northings(offs)] \cup ExampleObjects

GeographicObjects == [lat : Latitudes, lng : Longitudes]

FewEastings == {Num(-1), Num(0), Num(33729700), Num(65140937), Num(69999990),
                Num(69999991)} \cup NonFinite

FewNorthings == {Num(-1), Num(0), Num(50369500), Num(31317751), Num(129999990),
                 Num(129999991)} \cup NonFinite

FewProjectedObjects == [ea : FewEastings, no : FewNorthings]

FewProjected == {Num(-1), Num(33729700), Num(130000000), NaN}

FewGeographic == {Num(-875), Num(196), Num(5442), NaN}

\* Objects with both shapes, with half a shape, and with no property at all.
OtherObjects ==
    [ea : FewProjected, no : FewProjected, lat : FewGeographic, lng : FewGeographic]
    \cup [ea : FewProjected] \cup [no : FewProjected]
    \cup [lat : FewGeographic] \cup [lng : FewGeographic]
    \cup [ea : FewProjected, lat : FewGeographic]
    \cup [no : FewProjected, lng : FewGeographic]
    \cup {[tag |-> "object"]}

DecimalsInputs ==
    {undefinedNum, NaN, Num(-Unit)}
    \cup {Num(d * Unit) : d \in {0, 1, 2, 7, 100, MaxDecimals}}

FewDecimals == {undefinedNum, Num(0), Num(7 * Unit), Num(MaxDecimals * Unit)}

\* The first j characters of s.
Prefix(s, j) == SubSeq(s, 1, j)

Sample1 == <<"3", "7", "2", "9", "7", "0", "1", "2">>

Sample2 == <<"0", "3", "6", "9", "5", "9", "8", "7">>

Nines == <<"9", "9", "9", "9", "9", "9", "9", "9">>

Zeros == <<"0", "0", "0", "0", "0", "0", "0", "0">>

DigitGroups == {Prefix(s, j) : s \in {Sample1, Sample2, Nines}, j \in 0..MaxDigits}

FirstChars == firstLetters \cup {"Z", "I", "n", "1"}

SecondChars == Range(gridLetters) \cup {"I", "y", "1"}

\* The full-precision references of every letter pair.
FullSweep ==
    {<<l1, l2, " ">> \o Prefix(p[1], 5) \o <<" ">> \o Prefix(p[2], 5) :
        l1 \in FirstChars, l2 \in SecondChars,
        p \in {<<Zeros, Zeros>>, <<Nines, Nines>>, <<Sample1, Sample2>>}}

\* Every letter pair with digit groups of every precision.
LetterSweep ==
    FullSweep
    \cup {<<l1, l2, " ">> \o Prefix(Sample1, j) \o <<" ">> \o Prefix(Sample2, j) :
            l1 \in FirstChars, l2 \in SecondChars, j \in 1..4}
    \cup {<<l1, l2, " ", "3", "7", "3", " ", "0", "3", "6", "9">> :
            l1 \in FirstChars, l2 \in SecondChars}

\* A few letter pairs with every pair of digit groups.
DigitSweep ==
    {l \o sep1 \o g1 \o sep2 \o g2 :
        l \in {<<"N", "Y">>, <<"H", "P">>},
        sep1 \in {<<>>, <<" ">>}, sep2 \in {<<>>, <<" ">>},
        g1 \in DigitGroups, g2 \in DigitGroups}

Spacings == {<<>>, <<" ">>, <<" ", " ">>, <<"\t">>}

\* A few references with every spacing and letter case.
SpacingSweep ==
    {lead \o l \o sep1 \o p[1] \o sep2 \o p[2] \o trail :
        lead \in Spacings, trail \in Spacings,
        l \in {<<"N", "Y">>, <<"n", "y">>},
        sep1 \in Spacings, sep2 \in Spacings,
        p \in {<<Prefix(Sample1, 5), Prefix(Sample2, 5)>>,
               <<Prefix(Sample1, 3), Prefix(Sample2, 3)>>,
               <<Prefix(Sample1, 1), <<"0", "3", "7">> >>}}

ShortInputs == {<<>>, <<"N">>, <<"N", "Y">>, <<"N", "Y", "3">>}

\* The references of the examples of the documentation.
ExampleRefs ==
    {<<"N", "Y", " ", "3", "7", "2", "9", "7", " ", "0", "3", "6", "9", "5">>,
     <<"T", "G", " ", "5", "1", "4", "0", "9", " ", "1", "3", "1", "7", "7">>,
     <<"N", "Y", " ", "3", "7", "3", " ", "0", "3", "6", "9">>,
     <<"N", "Y", " ", "3", " ", "0", "3", "7">>,
     <<"Z", "Z", " ", "1", "2", "3", "4", "5", " ", "1", "2", "3", "4", "5">>}

GridRefInputs ==
    LetterSweep \cup DigitSweep \cup SpacingSweep \cup ShortInputs \cup ExampleRefs

\* The requests sent to the server.
\* Requests in flight at once: two, so that a handler waiting for its
\* request's data is overtaken by another request.
MaxInFlight == 2

AsGet(path, query) ==
    [method |-> "GET", path |-> path, query |-> query, body |-> [tag |-> "invalid"]]

AsPost(path, body) ==
    [method |-> "POST", path |-> path, query |-> [tag |-> "query"], body |-> body]

NoQuery == [tag |-> "query"]

SomeEa == NumToString(Metres(337297))

SomeNo == NumToString(Metres(503695))

SomeLat == <<"5", "4", ".", "4", "2">>

SomeLng == <<"-", "2", ".", "9", "7">>

NotANumber == <<"a", "b", "c">>

TooManyDecimals == NumToString(Metres(MaxDecimals))

SomeRef == <<"N", "Y", " ", "3", "7", "2", "9", "7", " ", "0", "3", "6", "9", "5">>

OutsideRef == <<"T", "S", " ", "0", "0", "0", "0", "0", " ", "0", "0", "0", "0", "0">>

ProjectedQueries ==
    {[tag |-> "query", ea |-> SomeEa, no |-> SomeNo],
     [tag |-> "query", ea |-> NumToString(Metres(700000)), no |-> <<"0">>],
     [tag |-> "query", ea |-> NotANumber, no |-> <<"0">>],
     [tag |-> "query", ea |-> <<"0">>, no |-> NotANumber]}

DecimalsQueries ==
    {[tag |-> "query", ea |-> SomeEa, no |-> SomeNo, decimals |-> <<"1">>],
     [tag |-> "query", ea |-> SomeEa, no |-> SomeNo, decimals |-> TooManyDecimals],
     [tag |-> "query", ea |-> SomeEa]}

GeographicQueries ==
    {[tag |-> "query", lat |-> SomeLat, lng |-> SomeLng],
     [tag |-> "query", lat |-> SomeLat, lng |-> SomeLng, decimals |-> <<"0">>],
     [tag |-> "query", lat |-> <<"6", "1">>, lng |-> <<"0">>]}

GridRefQueries ==
    {[tag |-> "query", gridref |-> SomeRef],
     [tag |-> "query", gridref |-> OutsideRef],
     [tag |-> "query", gridref |-> <<"Z", "Z">>]}

GetRequests ==
    {AsGet("/api/to-latlng", q) : q \in ProjectedQueries \cup DecimalsQueries}
    \cup {AsGet("/api/from-latlng", q) : q \in GeographicQueries}
    \cup {AsGet("/api/to-gridref", q) : q \in ProjectedQueries}
    \cup {AsGet("/api/from-gridref", q) :
             q \in GridRefQueries \cup {[tag |-> "query", gridref |-> <<"0">>]}}
    \cup {AsGet("/api/gridref-to-latlng", q) :
             q \in GridRefQueries
                  \cup {[tag |-> "query", gridref |-> SomeRef, decimals |-> TooManyDecimals]}}

PostRequests ==
    {AsPost("/api/to-latlng", [tag |-> "object", ea |-> NumberValue(Metres(337297)),
                                                 no |-> NumberValue(Metres(503695)),
                                                 decimals |-> NumberValue(Metres(1))]),
     AsPost("/api/to-latlng", [tag |-> "invalid"]),
     AsPost("/api/from-latlng", [tag |-> "null"]),
     AsPost("/api/from-latlng", [tag |-> "object", lat |-> NumberValue(Num(5442)),
                                                   lng |-> NullValue]),
     AsPost("/api/to-gridref", [tag |-> "object", no |-> NumberValue(Metres(5))]),
     AsPost("/api/from-gridref", [tag |-> "object", gridref |-> StringValue(<<>>)]),
     AsPost("/api/gridref-to-latlng", [tag |-> "object", decimals |-> NumberValue(Metres(2))])}

OtherRequests ==
    {AsGet("/health", NoQuery), AsGet("/nowhere", NoQuery),
     [AsGet("/api/to-latlng", NoQuery) EXCEPT !.method = "OPTIONS"]}

Requests == GetRequests \cup PostRequests \cup OtherRequests

(***************************************************************************)
(* The transformer instance and the calls made on it                       *)
(***************************************************************************)
NoObject == [tag |-> "none"]

NoResponse == [tag |-> "none"]

\* No request is in flight: the instance is used as a library, as
\* example-client.js uses it, or the server is idle.
Quiet == inflight = {}

Init ==
    /\ maxBounds = options
    /\ proj4Strict \in BOOLEAN
    /\ op = "idle"
    /\ coordinates = NoObject
    /\ gridref = <<>>
    /\ decimals = undefinedNum
    /\ result = NoObject
    /\ calls = <<>>
    /\ inflight = {}

CoordinateInputs == ProjectedObjects(CoarseOffsets) \cup GeographicObjects \cup OtherObjects

EncodeInputs == ProjectedObjects(Offsets) \cup GeographicObjects \cup OtherObjects

ProjectorInputs == FewProjectedObjects \cup GeographicObjects \cup OtherObjects

CallCheckBounds ==
    /\ op = "idle" /\ Quiet
    /\ \E c \in CoordinateInputs :
          /\ op' = "_checkBounds"
          /\ coordinates' = c
          /\ result' = _checkBounds(c)
          /\ calls' = <<>>
    /\ UNCHANGED inflight
    /\ UNCHANGED <<maxBounds, proj4Strict, gridref, decimals>>

CallValidateGridRef ==
    /\ op = "idle" /\ Quiet
    /\ \E g \in DigitSweep \cup SpacingSweep \cup ShortInputs :
          /\ op' = "_validateGridRef"
          /\ gridref' = g
          /\ result' = _validateGridRef(g)
          /\ calls' = <<>>
    /\ UNCHANGED inflight
    /\ UNCHANGED <<maxBounds, proj4Strict, coordinates, decimals>>

CallToGridRef ==
    /\ op = "idle" /\ Quiet
    /\ \E c \in EncodeInputs :
          /\ op' = "toGridRef"
          /\ coordinates' = c
          /\ result' = toGridRef(c)
          /\ calls' = toGridRefCalls(c)
    /\ UNCHANGED inflight
    /\ UNCHANGED <<maxBounds, proj4Strict, gridref, decimals>>

CallFromGridRef ==
    /\ op = "idle" /\ Quiet
    /\ \E g \in GridRefInputs :
          /\ op' = "fromGridRef"
          /\ gridref' = g
          /\ result' = fromGridRef(g)
          /\ calls' = fromGridRefCalls(g)
    /\ UNCHANGED inflight
    /\ UNCHANGED <<maxBounds, proj4Strict, coordinates, decimals>>

CallToLatLng ==
    /\ op = "idle" /\ Quiet
    /\ \E c \in ProjectorInputs, d \in DecimalsInputs :
          /\ op' = "toLatLng"
          /\ coordinates' = c
          /\ decimals' = d
          /\ result' = toLatLng(c, d)
          /\ calls' = toLatLngCalls(c, d)
    /\ UNCHANGED inflight
    /\ UNCHANGED <<maxBounds, proj4Strict, gridref>>

CallFromLatLng ==
    /\ op = "idle" /\ Quiet
    /\ \E c \in ProjectorInputs, d \in DecimalsInputs :
          /\ op' = "fromLatLng"
          /\ coordinates' = c
          /\ decimals' = d
          /\ result' = fromLatLng(c, d)
          /\ calls' = fromLatLngCalls(c, d)
    /\ UNCHANGED inflight
    /\ UNCHANGED <<maxBounds, proj4Strict, gridref>>

CallGridRefToLatLng ==
    /\ op = "idle" /\ Quiet
    /\ \E g \in FullSweep \cup ShortInputs, d \in FewDecimals :
          /\ op' = "gridRefToLatLng"
          /\ gridref' = g
          /\ decimals' = d
          /\ result' = gridRefToLatLng(g, d)
          /\ calls' = gridRefToLatLngCalls(g, d)
    /\ UNCHANGED inflight
    /\ UNCHANGED <<maxBounds, proj4Strict, coordinates>>

\* The caller has consumed the result; the instance is ready for the next call.
Return ==
    /\ op # "idle"
    /\ op' = "idle"
    /\ coordinates' = NoObject
    /\ gridref' = <<>>
    /\ decimals' = undefinedNum
    /\ result' = NoObject
    /\ calls' = <<>>
    /\ UNCHANGED inflight
    /\ UNCHANGED <<maxBounds, proj4Strict>>

transformer == <<maxBounds, proj4Strict, op, coordinates, gridref, decimals, result, calls>>

\* A request in flight with the response of its handler, once it has one,
\* and the calls the handler made on the transformer.
Exchange(req, response, trace) == [request |-> req, response |-> response, calls |-> trace]

Finished(x, outcome) == Exchange(x.request, outcome.response, outcome.calls)

\* fetch up to its first await: a preflight, the health check and an unknown
\* path are answered at once, an API route waits for the request's data.
\* The requests in flight are pairwise different.
Fetch ==
    /\ op = "idle"
    /\ Cardinality(inflight) < MaxInFlight
    /\ \E req \in Requests :
          /\ \A x \in inflight : x.request # req
          /\ inflight' = inflight \cup
                {Exchange(req, IF AnswersAtOnce(req) THEN AnswerAtOnce(req) ELSE NoResponse,
                          <<>>)}
    /\ UNCHANGED transformer

\* The rest of a route once getRequestData has resolved, in one step: the
\* transformer's methods are synchronous.
RouteToLatLng ==
    /\ \E x \in inflight :
          /\ x.request.path = "/api/to-latlng"
          /\ ~AnswersAtOnce(x.request)
          /\ x.response = NoResponse
          /\ inflight' = (inflight \ {x}) \cup {Finished(x, toLatLngRoute(x.request))}
    /\ UNCHANGED transformer

RouteFromLatLng ==
    /\ \E x \in inflight :
          /\ x.request.path = "/api/from-latlng"
          /\ ~AnswersAtOnce(x.request)
          /\ x.response = NoResponse
          /\ inflight' = (inflight \ {x}) \cup {Finished(x, fromLatLngRoute(x.request))}
    /\ UNCHANGED transformer

\* A plausible slip: a method that rounds the shared bounds in place while it
\* serves a request.
RouteToGridRefWriting ==
    /\ \E x \in inflight :
          /\ x.request.path = "/api/to-gridref"
          /\ ~AnswersAtOnce(x.request)
          /\ x.response = NoResponse
          /\ inflight' = (inflight \ {x}) \cup {Finished(x, toGridRefRoute(x.request))}
    /\ maxBounds' = optionsRound
    /\ UNCHANGED <<proj4Strict, op, coordinates, gridref, decimals, result, calls>>

RouteToGridRef ==
    /\ \E x \in inflight :
          /\ x.request.path = "/api/to-gridref"
          /\ ~AnswersAtOnce(x.request)
          /\ x.response = NoResponse
          /\ inflight' = (inflight \ {x}) \cup {Finished(x, toGridRefRoute(x.request))}
    /\ UNCHANGED transformer

RouteFromGridRef ==
    /\ \E x \in inflight :
          /\ x.request.path = "/api/from-gridref"
          /\ ~AnswersAtOnce(x.request)
          /\ x.response = NoResponse
          /\ inflight' = (inflight \ {x}) \cup {Finished(x, fromGridRefRoute(x.request))}
    /\ UNCHANGED transformer

RouteGridRefToLatLng ==
    /\ \E x \in inflight :
          /\ x.request.path = "/api/gridref-to-latlng"
          /\ ~AnswersAtOnce(x.request)
          /\ x.response = NoResponse
          /\ inflight' = (inflight \ {x}) \cup {Finished(x, gridRefToLatLngRoute(x.request))}
    /\ UNCHANGED transformer

\* The response has been sent.
Respond ==
    /\ \E x \in inflight :
          /\ x.response # NoResponse
          /\ inflight' = inflight \ {x}
    /\ UNCHANGED transformer

Next ==
    \/ Fetch
    \/ RouteToLatLng
    \/ RouteFromLatLng
    \/ RouteToGridRef
    \/ RouteFromGridRef
    \/ RouteGridRefToLatLng
    \/ Respond
    \/ CallCheckBounds
    \/ CallValidateGridRef
    \/ CallToGridRef
    \/ CallFromGridRef
    \/ CallToLatLng
    \/ CallFromLatLng
    \/ CallGridRefToLatLng
    \/ Return

Spec == Init /\ [][Next]_vars

TypeOK == op \in {"idle", "_checkBounds", "_validateGridRef", "toGridRef",
                  "fromGridRef", "toLatLng", "fromLatLng", "gridRefToLatLng"}

(***************************************************************************)
(* Vocabulary of the properties                                            *)
(***************************************************************************)
HasProjectedShape(c) == {"ea", "no"} \subseteq ObjectKeys(c)

HasGeographicShape(c) == {"lat", "lng"} \subseteq ObjectKeys(c) /\ ~HasProjectedShape(c)

\* 0 <= ea <= 699999.9 and 0 <= no <= 1299999.9
InProjectedExtent(c) ==
    /\ IsFinite(c.ea) /\ 0 <= c.ea.v /\ c.ea.v <= 69999990
    /\ IsFinite(c.no) /\ 0 <= c.no.v /\ c.no.v <= 129999990

\* -8.74 <= lng <= 1.96 and 49.84 <= lat <= 60.9
InGeographicExtent(c) ==
    /\ IsFinite(c.lng) /\ -874 <= c.lng.v /\ c.lng.v <= 196
    /\ IsFinite(c.lat) /\ 4984 <= c.lat.v /\ c.lat.v <= 6090

IsDigitString(s) == \A j \in DOMAIN s : s[j] \in Range(Digits)

\* 'LL EEEEE NNNNN': two upper-case letters, single spaces, two 5-digit groups.
IsCanonicalFull(t) ==
    /\ Len(t) = 14
    /\ t[1] \in Range(UpperLetters) /\ t[2] \in Range(UpperLetters)
    /\ t[3] = " " /\ t[9] = " "
    /\ IsDigitString(SubSeq(t, 4, 8)) /\ IsDigitString(SubSeq(t, 10, 14))

\* The letter pair is one of the codes of the 13 x 7 tile table.
InTileTable(l) == \E r \in DOMAIN prefixes : \E q \in DOMAIN prefixes[r] : prefixes[r][q] = l

\* The text, once trimmed, is two letters and two groups of a and b digits,
\* written apart (a space between the groups, possibly one after the letters).
HasGroups(t0, a, b) ==
    LET t == trim(t0)
    IN \E sp \in 0..1 :
          /\ Len(t) = 2 + sp + a + 1 + b
          /\ sp = 1 => t[3] = " "
          /\ IsDigits(t, 3 + sp, a)
          /\ t[3 + sp + a] = " "
          /\ IsDigits(t, 3 + sp + a + 1, b)

(***************************************************************************)
(* C1  Encode-then-decode round trip.  For every projected coordinate      *)
(* inside the projected extent, toGridRef returns a populated result whose *)
(* text fromGridRef accepts and decodes to the coordinate at 1 m           *)
(* precision: {ea: floor(ea), no: floor(no)}; an integer-metre coordinate  *)
(* comes back exactly.                                                     *)
(***************************************************************************)
C1_EncodeDecodeRoundTrip ==
    (op = "toGridRef" /\ HasProjectedShape(coordinates) /\ InProjectedExtent(coordinates))
    => /\ result.tag = "gridref"
       /\ LET back == fromGridRef(result.text)
          IN /\ back.tag = "en"
             /\ back.ea = Floor(coordinates.ea)
             /\ back.no = Floor(coordinates.no)
             /\ (IsInteger(coordinates.ea) /\ IsInteger(coordinates.no))
                  => (back.ea = coordinates.ea /\ back.no = coordinates.no)

\* toGridRef has encoded a coordinate with a fraction of a metre in the most
\* northerly row of tiles, and the text decodes.
C1_Witness ==
    /\ op = "toGridRef"
    /\ HasProjectedShape(coordinates) /\ InProjectedExtent(coordinates)
    /\ ~IsInteger(coordinates.ea)
    /\ coordinates.no.v >= 12 * Band
    /\ result.tag = "gridref"
    /\ fromGridRef(result.text).tag = "en"

(***************************************************************************)
(* C2  Decode-then-encode round trip.  For every full-precision reference  *)
(* in canonical form 'LL EEEEE NNNNN' that fromGridRef accepts, whatever   *)
(* its letter pair, toGridRef(fromGridRef(t)).text is t.                   *)
(***************************************************************************)
C2_DecodeEncodeRoundTrip ==
    (op = "fromGridRef" /\ IsCanonicalFull(gridref) /\ result.tag = "en")
    => LET again == toGridRef(result)
       IN again.tag = "gridref" /\ again.text = gridref

(***************************************************************************)
(* C3  Unequal digit groups are rejected.  fromGridRef returns Empty for   *)
(* every text whose two space-separated digit groups have different        *)
(* lengths.                                                                *)
(***************************************************************************)
C3_UnequalGroupsRejected ==
    (op = "fromGridRef"
        /\ \E a \in 1..(MaxDigits + 1), b \in 1..(MaxDigits + 1) :
              a # b /\ HasGroups(gridref, a, b))
    => result = Empty

\* The result has the five fields of a grid reference, all well formed.
IsPopulatedGridRef(r) ==
    /\ r.tag = "gridref"
    /\ InTileTable(r.letters)
    /\ Len(r.eastings) = 5 /\ IsDigitString(r.eastings)
    /\ Len(r.northings) = 5 /\ IsDigitString(r.northings)
    /\ Len(r.text) = 14 /\ Len(r.html) = 28

\* floor(ea / 100000) and floor(no / 100000) are indices of the 13 x 7 table.
HasTile(c) ==
    /\ IsFinite(c.ea) /\ (c.ea.v \div Band) \in 0..6
    /\ IsFinite(c.no) /\ (c.no.v \div Band) \in 0..12

(***************************************************************************)
(* C4  toGridRef never crashes.  For every coordinate object with ea and   *)
(* no fields, whatever their values, toGridRef does not throw and returns  *)
(* Empty or a fully populated result; it returns Empty whenever            *)
(* floor(no/100000) or floor(ea/100000) is not an index of the tile table. *)
(***************************************************************************)
C4_ToGridRefNeverCrashes ==
    (op = "toGridRef" /\ HasProjectedShape(coordinates))
    => /\ result.tag # "throw"
       /\ result = Empty \/ IsPopulatedGridRef(result)
       /\ ~HasTile(coordinates) => result = Empty

(***************************************************************************)
(* C5  Bounds rejection.  toGridRef and toLatLng return Empty for every    *)
(* projected coordinate with ea < 0, ea > 699999.9, no < 0 or              *)
(* no > 1299999.9; fromLatLng returns Empty for every geographic           *)
(* coordinate with lng < -8.74, lng > 1.96, lat < 49.84 or lat > 60.9; a   *)
(* coordinate inside the extent with a component on a boundary value is    *)
(* not rejected.                                                           *)
(***************************************************************************)
OutsideProjected(c) ==
    \/ Lt(c.ea, Num(0)) \/ Gt(c.ea, Num(69999990))
    \/ Lt(c.no, Num(0)) \/ Gt(c.no, Num(129999990))

OutsideGeographic(c) ==
    \/ Lt(c.lng, Num(-874)) \/ Gt(c.lng, Num(196))
    \/ Lt(c.lat, Num(4984)) \/ Gt(c.lat, Num(6090))

OnProjectedBoundary(c) ==
    /\ InProjectedExtent(c)
    /\ c.ea.v \in {0, 69999990} \/ c.no.v \in {0, 129999990}

OnGeographicBoundary(c) ==
    /\ InGeographicExtent(c)
    /\ c.lng.v \in {-874, 196} \/ c.lat.v \in {4984, 6090}

C5_BoundsRejection ==
    /\ (op \in {"toGridRef", "toLatLng"} /\ HasProjectedShape(coordinates))
       => /\ OutsideProjected(coordinates) => result = Empty
          /\ OnProjectedBoundary(coordinates) => result # Empty
    /\ (op = "fromLatLng" /\ HasGeographicShape(coordinates))
       => /\ OutsideGeographic(coordinates) => result = Empty
          /\ OnGeographicBoundary(coordinates) => result # Empty

\* toGridRef has rejected the easting 700000, just above the maximum.
C5_Witness ==
    /\ op = "toGridRef"
    /\ ObjectKeys(coordinates) = {"ea", "no"}
    /\ coordinates.ea = Metres(700000)
    /\ IsFinite(coordinates.no) /\ coordinates.no.v \in 0..129999990
    /\ result = Empty

(***************************************************************************)
(* C6  Letters are validated before any arithmetic.  fromGridRef returns   *)
(* Empty for every text whose first character (once trimmed, in either     *)
(* case) is not one of T, H, J, O, N, S or whose second character is not   *)
(* one of the 25 letters of 'VWXYZQRSTULMNOPFGHJKABCDE'; whenever a        *)
(* coordinate is computed, both letters have an index in that string, so   *)
(* indexOf is never -1 in the offsets.                                     *)
(***************************************************************************)
TwentyFive == {"V", "W", "X", "Y", "Z", "Q", "R", "S", "T", "U", "L", "M", "N",
               "O", "P", "F", "G", "H", "J", "K", "A", "B", "C", "D", "E"}

C6_LettersValidated ==
    op = "fromGridRef"
    => LET t == toUpperCase(trim(gridref))
           ref == removeSpaces(t)
       IN /\ (Len(t) < 2 \/ t[1] \notin {"T", "H", "J", "O", "N", "S"}
                         \/ t[2] \notin TwentyFive)
              => result = Empty
          /\ result # Empty
              => /\ indexOf(gridLetters, ref[1]) \in 0..24
                 /\ indexOf(gridLetters, ref[2]) \in 0..24

\* fromGridRef has rejected 'ZZ 12345 12345'.
C6_Witness ==
    /\ op = "fromGridRef"
    /\ gridref = <<"Z", "Z", " ", "1", "2", "3", "4", "5", " ", "1", "2", "3", "4", "5">>
    /\ result = Empty

(***************************************************************************)
(* C7  Monotonic precision.  For every accepted reference with i digits    *)
(* per group, 1 <= i <= 4, whose letter pair is in the tile table,         *)
(* re-encoding the decoded coordinate gives the same letters, and the      *)
(* eastings and northings strings are the original digit groups followed   *)
(* by 5 - i zeros.                                                         *)
(***************************************************************************)
\* The digits of an accepted reference, and the number of digits per group.
RefDigits(g) == LET ref == removeSpaces(toUpperCase(trim(g))) IN SubSeq(ref, 3, Len(ref))

RefLetters(g) == LET ref == removeSpaces(toUpperCase(trim(g))) IN SubSeq(ref, 1, 2)

RefPrecision(g) == Len(RefDigits(g)) \div 2

EastingDigits(g) == SubSeq(RefDigits(g), 1, RefPrecision(g))

NorthingDigits(g) == SubSeq(RefDigits(g), RefPrecision(g) + 1, Len(RefDigits(g)))

C7_MonotonicPrecision ==
    (op = "fromGridRef" /\ result # Empty
        /\ InTileTable(RefLetters(gridref)) /\ RefPrecision(gridref) \in 1..4)
    => LET i == RefPrecision(gridref)
           again == toGridRef(result)
       IN /\ again.tag = "gridref"
          /\ again.letters = RefLetters(gridref)
          /\ again.eastings = EastingDigits(gridref) \o Prefix(Zeros, 5 - i)
          /\ again.northings = NorthingDigits(gridref) \o Prefix(Zeros, 5 - i)

\* fromGridRef has decoded a 3-digit reference of a tile of the table.
C7_Witness ==
    /\ op = "fromGridRef"
    /\ result.tag = "en"
    /\ InTileTable(RefLetters(gridref))
    /\ RefPrecision(gridref) = 3
    /\ EastingDigits(gridref) # <<"0", "0", "0">>
    /\ HasGroups(gridref, 3, 3)

(***************************************************************************)
(* C8  Encode result.  For every in-bounds projected coordinate toGridRef  *)
(* returns letters = prefixes[floor(no/100000)][floor(ea/100000)],         *)
(* eastings and northings = floor(ea mod 100000) and floor(no mod 100000)  *)
(* zero-padded to 5 digits, text = letters ' ' eastings ' ' northings (14  *)
(* characters) and html the same with '&thinsp;' for each space;           *)
(* {ea: 337297, no: 503695} gives 'NY 37297 03695' and                     *)
(* {ea: 651409, no: 313177} gives 'TG 51409 13177'.                        *)
(***************************************************************************)
\* The five decimal digits of n, 0 <= n <= 99999.
FiveDigits(n) ==
    <<Digits[((n \div 10000) % 10) + 1], Digits[((n \div 1000) % 10) + 1],
      Digits[((n \div 100) % 10) + 1], Digits[((n \div 10) % 10) + 1],
      Digits[(n % 10) + 1]>>

C8_EncodeResult ==
    (op = "toGridRef" /\ HasProjectedShape(coordinates) /\ InProjectedExtent(coordinates))
    => LET ea == coordinates.ea.v
           no == coordinates.no.v
           letters == prefixes[(no \div Band) + 1][(ea \div Band) + 1]
           eastings == FiveDigits((ea % Band) \div Unit)
           northings == FiveDigits((no % Band) \div Unit)
       IN /\ result.tag = "gridref"
          /\ result.letters = letters
          /\ result.eastings = eastings
          /\ result.northings = northings
          /\ result.text = letters \o <<" ">> \o eastings \o <<" ">> \o northings
          /\ Len(result.text) = 14
          /\ result.html = letters \o thinsp \o eastings \o thinsp \o northings
          /\ (coordinates.ea = Metres(337297) /\ coordinates.no = Metres(503695))
               => /\ result.text = <<"N", "Y", " ", "3", "7", "2", "9", "7", " ",
                                      "0", "3", "6", "9", "5">>
                  /\ result.letters = <<"N", "Y">>
                  /\ result.eastings = <<"3", "7", "2", "9", "7">>
                  /\ result.northings = <<"0", "3", "6", "9", "5">>
          /\ (coordinates.ea = Metres(651409) /\ coordinates.no = Metres(313177))
               => result.text = <<"T", "G", " ", "5", "1", "4", "0", "9", " ",
                                   "1", "3", "1", "7", "7">>

\* toGridRef has encoded {ea: 651409, no: 313177}.
C8_Witness ==
    /\ op = "toGridRef"
    /\ coordinates = [ea |-> Metres(651409), no |-> Metres(313177)]
    /\ result.tag = "gridref"
    /\ result.letters = <<"T", "G">>

(***************************************************************************)
(* C9  Decode result.  For every accepted reference with letters L1 L2     *)
(* and i digits per group, fromGridRef returns                             *)
(*   ea = (idx(L1) mod 5)*500000 - 1000000 + (idx(L2) mod 5)*100000        *)
(*        + E*10^(5-i)                                                     *)
(*   no = floor(idx(L1)/5)*500000 - 500000 + floor(idx(L2)/5)*100000       *)
(*        + N*10^(5-i)                                                     *)
(* with idx the position in 'VWXYZQRSTULMNOPFGHJKABCDE' and E, N the       *)
(* values of the two halves of the digits; 'NY 37297 03695' decodes to     *)
(* {ea: 337297, no: 503695}; a truncated reference decodes as the          *)
(* reference padded with zeros to 5 digits per group.                      *)
(***************************************************************************)
idx(ch) == CHOOSE k \in 0..24 :
    <<"V", "W", "X", "Y", "Z", "Q", "R", "S", "T", "U", "L", "M", "N",
      "O", "P", "F", "G", "H", "J", "K", "A", "B", "C", "D", "E">>[k + 1] = ch

\* The value of a digit string, most significant digit first.
RECURSIVE DecimalValue(_, _)
DecimalValue(s, acc) ==
    IF s = <<>> THEN acc
    ELSE DecimalValue(Tail(s), 10 * acc + (CHOOSE d \in 0..9 : Digits[d + 1] = Head(s)))

TenTo(k) == IF k = 0 THEN 1 ELSE IF k = 1 THEN 10 ELSE IF k = 2 THEN 100
            ELSE IF k = 3 THEN 1000 ELSE 10000

Padded(g) ==
    RefLetters(g) \o <<" ">> \o EastingDigits(g) \o Prefix(Zeros, 5 - RefPrecision(g))
                  \o <<" ">> \o NorthingDigits(g) \o Prefix(Zeros, 5 - RefPrecision(g))

C9_DecodeResult ==
    (op = "fromGridRef" /\ result # Empty)
    => LET l == RefLetters(gridref)
           i == RefPrecision(gridref)
           E == DecimalValue(EastingDigits(gridref), 0)
           N == DecimalValue(NorthingDigits(gridref), 0)
       IN /\ i \in 1..5
          /\ result.tag = "en"
          /\ result.ea = Num(100 * ((idx(l[1]) % 5) * 500000 - 1000000
                                   + (idx(l[2]) % 5) * 100000 + E * TenTo(5 - i)))
          /\ result.no = Num(100 * ((idx(l[1]) \div 5) * 500000 - 500000
                                   + (idx(l[2]) \div 5) * 100000 + N * TenTo(5 - i)))
          /\ gridref = <<"N", "Y", " ", "3", "7", "2", "9", "7", " ", "0", "3", "6", "9", "5">>
               => result = [tag |-> "en", ea |-> Num(33729700), no |-> Num(50369500)]
          /\ fromGridRef(Padded(gridref)) = result

\* fromGridRef has decoded a truncated reference of a northern tile.
C9_Witness ==
    /\ op = "fromGridRef"
    /\ result.tag = "en"
    /\ RefPrecision(gridref) = 2
    /\ RefLetters(gridref) = <<"H", "P">>
    /\ Padded(gridref) # gridref

(***************************************************************************)
(* C10  Bounds validator result.  For a coordinate with both ea and no     *)
(* (finite), _checkBounds returns valid = true exactly when                *)
(* 0 <= ea <= 699999.9 and 0 <= no <= 1299999.9, also when lat and lng are *)
(* present too; with lat and lng and not both ea and no, exactly when      *)
(* -8.74 <= lng <= 1.96 and 49.84 <= lat <= 60.9.  message is '' exactly   *)
(* when valid, 'Coordinates out of range.' otherwise.                      *)
(***************************************************************************)
C10_CheckBoundsResult ==
    op = "_checkBounds"
    => /\ (HasProjectedShape(coordinates)
             /\ IsFinite(coordinates.ea) /\ IsFinite(coordinates.no))
          => (result.valid <=> InProjectedExtent(coordinates))
       /\ (HasGeographicShape(coordinates)
             /\ IsFinite(coordinates.lat) /\ IsFinite(coordinates.lng))
          => (result.valid <=> InGeographicExtent(coordinates))
       /\ result.valid \in BOOLEAN
       /\ result.message = (IF result.valid THEN "" ELSE "Coordinates out of range.")

\* _checkBounds has accepted an object of both shapes whose projected pair is
\* inside its extent and whose geographic pair is outside.
C10_Witness ==
    /\ op = "_checkBounds"
    /\ ObjectKeys(coordinates) = {"ea", "no", "lat", "lng"}
    /\ InProjectedExtent(coordinates)
    /\ IsFinite(coordinates.lat) /\ IsFinite(coordinates.lng)
    /\ ~InGeographicExtent(coordinates)
    /\ result.valid

(***************************************************************************)
(* C11  Permissive default of the bounds validator.  For a coordinate      *)
(* object that has neither both of ea and no nor both of lat and lng (the  *)
(* empty object, or one field of a pair, whatever its value),              *)
(* _checkBounds returns {valid: true, message: ''}.                        *)
(***************************************************************************)
HasNoCompletePair(c) ==
    /\ ~({"ea", "no"} \subseteq ObjectKeys(c))
    /\ ~({"lat", "lng"} \subseteq ObjectKeys(c))

C11_PermissiveDefault ==
    (op = "_checkBounds" /\ HasNoCompletePair(coordinates))
    => result = [valid |-> TRUE, message |-> ""]

\* _checkBounds has accepted an object whose only property is an easting
\* west of the projected extent.
C11_Witness ==
    /\ op = "_checkBounds"
    /\ ObjectKeys(coordinates) = {"ea"}
    /\ Lt(coordinates.ea, Num(0))
    /\ result.valid
    /\ result.message = ""

(***************************************************************************)
(* C12  Composition.  gridRefToLatLng(text, decimals) returns {} exactly   *)
(* when fromGridRef(text) is {} or the decoded coordinate fails the        *)
(* projected bounds check; otherwise its outcome is that of                *)
(* toLatLng(fromGridRef(text), decimals).  When fromGridRef returns {}     *)
(* neither the bounds check nor the projection is invoked.                 *)
(***************************************************************************)
Invokes(trace, name) == \E i \in 1..Len(trace) : trace[i].fn = name

C12_GridRefToLatLngComposition ==
    op = "gridRefToLatLng"
    => LET c == fromGridRef(gridref)
       IN /\ (result = Empty) <=> (c = Empty \/ ~InProjectedExtent(c))
          /\ (result # Empty) => (result = toLatLng(c, decimals))
          /\ (c = Empty) => (~Invokes(calls, "_checkBounds") /\ ~Invokes(calls, "proj4"))
          /\ (c # Empty) => Invokes(calls, "_checkBounds")

\* gridRefToLatLng has returned {} for a text that does not decode, without
\* reaching the projection.
C12_Witness ==
    /\ op = "gridRefToLatLng"
    /\ fromGridRef(gridref) = Empty
    /\ result = Empty
    /\ ~Invokes(calls, "proj4")

\* gridRefToLatLng has returned {} for a text that decodes to a coordinate
\* outside the projected extent.
C12_WitnessOutOfBounds ==
    /\ op = "gridRefToLatLng"
    /\ fromGridRef(gridref) # Empty
    /\ ~InProjectedExtent(fromGridRef(gridref))
    /\ result = Empty

\* gridRefToLatLng has returned the latitude and longitude of a decoded text.
C12_WitnessPopulated ==
    /\ op = "gridRefToLatLng"
    /\ result # Empty
    /\ result.tag = "latlng"
    /\ Invokes(calls, "proj4")

(***************************************************************************)
(* C13  No partial results.  Every value a method returns is {} or a       *)
(* complete object: toGridRef all five fields defined, fromGridRef ea and  *)
(* no finite integers, toLatLng and gridRefToLatLng both lat and lng,      *)
(* fromLatLng both ea and no; no field is undefined or NaN.                *)
(***************************************************************************)
HasFiniteFields(r, fields) ==
    /\ ObjectKeys(r) = fields
    /\ \A f \in fields : IsFinite(r[f])

C13_NoPartialResults ==
    (op \in {"toGridRef", "fromGridRef", "toLatLng", "fromLatLng", "gridRefToLatLng"}
       /\ result.tag # "throw" /\ result # Empty)
    => CASE op = "toGridRef" -> IsPopulatedGridRef(result)
         [] op = "fromGridRef" ->
               /\ HasFiniteFields(result, {"ea", "no"})
               /\ IsInteger(result.ea) /\ IsInteger(result.no)
         [] op \in {"toLatLng", "gridRefToLatLng"} -> HasFiniteFields(result, {"lat", "lng"})
         [] op = "fromLatLng" -> HasFiniteFields(result, {"ea", "no"})

(***************************************************************************)
(* C14  Decode is insensitive to letter case and to whitespace.  A text    *)
(* decodes as the same text in upper case with its whitespace removed      *)
(* does: leading and trailing whitespace, whitespace between the letters   *)
(* and the digits and whitespace between the two digit groups do not       *)
(* change the coordinate (' ny 37297 03695 ' and 'NY 37297 03695' decode   *)
(* as 'NY3729703695', to {ea: 337297, no: 503695}).                        *)
(***************************************************************************)
RECURSIVE removeWhitespace(_)
removeWhitespace(s) ==
    IF s = <<>> THEN <<>>
    ELSE IF IsWhitespace(Head(s)) THEN removeWhitespace(Tail(s))
    ELSE <<Head(s)>> \o removeWhitespace(Tail(s))

Compact(g) == removeWhitespace(toUpperCase(g))

\* The number of characters of s before position j that are not whitespace.
InkBefore(s, j) == Cardinality({q \in 1..(j - 1) : ~IsWhitespace(s[q])})

\* Two letters and two digit groups of equal length that _validateGridRef
\* accepts when written without whitespace, with whitespace nowhere but
\* before the letters, after them, between the groups and after the groups.
IsSpacedReference(g) ==
    LET u == Compact(g)
        k == (Len(u) - 2) \div 2
    IN /\ _validateGridRef(u).valid
       /\ \A j \in DOMAIN g :
             IsWhitespace(g[j]) => InkBefore(g, j) \in {0, 2, 2 + k, 2 + 2 * k}

C14_DecodeIgnoresCaseAndSpace ==
    (op = "fromGridRef" /\ IsSpacedReference(gridref))
    => /\ result # Empty
       /\ result = fromGridRef(Compact(gridref))

(***************************************************************************)
(* C15  HTTP outcome mapping.  On each of the five API routes a request    *)
(* with all required parameters present gets exactly one response: 400     *)
(* when the transformer returns {}, 200 with the result as body when it    *)
(* returns a populated result, 500 with {error: message} when it throws;   *)
(* the exception does not escape the handler.                              *)
(***************************************************************************)
RequiredParameters(path) ==
    CASE path \in {"/api/to-latlng", "/api/to-gridref"} -> {"ea", "no"}
      [] path = "/api/from-latlng" -> {"lat", "lng"}
      [] path \in {"/api/from-gridref", "/api/gridref-to-latlng"} -> {"gridref"}

IsApiRequest(req) == req.path \in ApiPaths /\ req.method # "OPTIONS"

RequiredPresent(req) ==
    /\ IsApiRequest(req)
    /\ getRequestData(req).tag = "object"
    /\ RequiredParameters(req.path) \subseteq ObjectKeys(getRequestData(req))

\* What the route's method does for the parameters of the request.
MethodOutcome(path, data) ==
    CASE path = "/api/to-latlng" ->
            toLatLng([ea |-> Number(data.ea), no |-> Number(data.no)], DecimalsArgument(data))
      [] path = "/api/from-latlng" ->
            fromLatLng([lat |-> Number(data.lat), lng |-> Number(data.lng)],
                       DecimalsArgument(data))
      [] path = "/api/to-gridref" ->
            toGridRef([ea |-> Number(data.ea), no |-> Number(data.no)])
      [] path = "/api/from-gridref" -> fromGridRef(String(data.gridref))
      [] path = "/api/gridref-to-latlng" ->
            gridRefToLatLng(String(data.gridref), DecimalsArgument(data))

Mapped(response, res) ==
    IF res.tag = "throw"
    THEN response = [status |-> 500, body |-> ErrorBody(res.error)]
    ELSE IF res = Empty THEN response.status = 400 /\ ObjectKeys(response.body) = {"error"}
    ELSE response = [status |-> 200, body |-> JSONstringify(res)]

Answered(x) == x.response # NoResponse

OutcomeMapped ==
    \A x \in inflight :
       (Answered(x) /\ RequiredPresent(x.request))
       => Mapped(x.response, MethodOutcome(x.request.path, getRequestData(x.request)))

\* A response, once given, stays the response of its request until it is sent.
ResponseKept ==
    \A x \in inflight :
       Answered(x) => (x \in inflight' \/ \A y \in inflight' : y.request # x.request)

C15_HttpOutcome == []OutcomeMapped /\ [][ResponseKept]_vars

\* The three outcomes are in flight at once or in turn: here a request for a
\* grid reference whose northing is not a number has got its 500.
C15_Witness ==
    \E x \in inflight :
       /\ x.request.path = "/api/to-gridref"
       /\ RequiredPresent(x.request)
       /\ Answered(x)
       /\ x.response.status = 500
       /\ x.calls # <<>>
       /\ x.calls[1].result.tag = "throw"

C15_WitnessEmpty ==
    \E x \in inflight :
       /\ RequiredPresent(x.request)
       /\ Answered(x)
       /\ x.calls # <<>>
       /\ x.calls[1].result = Empty
       /\ x.response.status = 400

C15_WitnessPopulated ==
    \E x \in inflight :
       /\ RequiredPresent(x.request)
       /\ Answered(x)
       /\ x.calls # <<>>
       /\ x.calls[1].result.tag = "latlng"
       /\ x.response.status = 200

(***************************************************************************)
(* C16  Purity under concurrency.  No operation writes options.maxBounds   *)
(* (the tile table is a constant of each call) or the request it was       *)
(* given, and the outcome of a call depends on its own arguments only:     *)
(* whatever requests were served in between, the response of a request and *)
(* the calls made for it are those of the same request served alone on a   *)
(* fresh instance.                                                         *)
(***************************************************************************)
\* The outcome of the request's route in the current state of the instance.
Alone(req) ==
    CASE req.path = "/api/to-latlng" -> toLatLngRoute(req)
      [] req.path = "/api/from-latlng" -> fromLatLngRoute(req)
      [] req.path = "/api/to-gridref" -> toGridRefRoute(req)
      [] req.path = "/api/from-gridref" -> fromGridRefRoute(req)
      [] req.path = "/api/gridref-to-latlng" -> gridRefToLatLngRoute(req)

OutcomeOfArgumentsOnly ==
    /\ maxBounds = options
    /\ \A x \in inflight :
          (Answered(x) /\ IsApiRequest(x.request))
          => /\ x.response = Alone(x.request).response
             /\ x.calls = Alone(x.request).calls

\* A step writes neither the bounds nor the request of an exchange in flight.
NothingWritten ==
    /\ maxBounds' = maxBounds
    /\ \A x \in inflight :
          \/ \E y \in inflight' : y.request = x.request
          \/ Answered(x)

C16_Purity == []OutcomeOfArgumentsOnly /\ [][NothingWritten]_vars

\* Two requests that reach the transformer are in flight and answered, one
\* of them served while the other was waiting or answered.
C16_Witness ==
    /\ maxBounds = options
    /\ \E x \in inflight, y \in inflight :
          /\ x # y
          /\ Answered(x) /\ x.calls # <<>> /\ x.calls[1].fn = "toGridRef"
          /\ Answered(y) /\ y.calls # <<>> /\ y.calls[1].fn = "toLatLng"

(***************************************************************************)
(* C17  Default decimals.  toLatLng(c) is toLatLng(c, 7),                  *)
(* gridRefToLatLng(t) is gridRefToLatLng(t, 7) and fromLatLng(g) is        *)
(* fromLatLng(g, 2).  A request that omits decimals has undefined passed   *)
(* to the method, so that the method's default applies; a request that     *)
(* supplies decimals has Number(decimals) passed.                          *)
(***************************************************************************)
DefaultsApplied ==
    decimals = undefinedNum
    => /\ op = "toLatLng" => result = toLatLng(coordinates, Num(7 * Unit))
       /\ op = "gridRefToLatLng" => result = gridRefToLatLng(gridref, Num(7 * Unit))
       /\ op = "fromLatLng" => result = fromLatLng(coordinates, Num(2 * Unit))

DecimalsPassed ==
    \A x \in inflight :
       (x.calls # <<>> /\ x.calls[1].fn \in {"toLatLng", "fromLatLng", "gridRefToLatLng"})
       => x.calls[1].decimals =
             (IF "decimals" \in ObjectKeys(getRequestData(x.request))
              THEN Number(getRequestData(x.request).decimals)
              ELSE undefinedNum)

C17_WitnessRequest ==
    \E x \in inflight :
       /\ x.calls # <<>>
       /\ x.calls[1].fn = "toLatLng"
       /\ "decimals" \notin ObjectKeys(getRequestData(x.request))
       /\ x.calls[1].decimals = undefinedNum
       /\ x.response.status = 200

\* A request with decimals has reached gridRefToLatLng with their number.
C17_WitnessSupplied ==
    \E x \in inflight :
       /\ x.calls # <<>>
       /\ x.calls[1].fn = "gridRefToLatLng"
       /\ "decimals" \in ObjectKeys(getRequestData(x.request))
       /\ x.calls[1].decimals = Metres(MaxDecimals)

(***************************************************************************)
(* C18  Validation precedes projection.  In every execution of toLatLng,   *)
(* fromLatLng and gridRefToLatLng proj4 is invoked at most once, only      *)
(* after _checkBounds has returned valid, and never with a projected       *)
(* coordinate outside [0, 699999.9] x [0, 1299999.9] or a geographic       *)
(* coordinate outside [-8.74, 1.96] x [49.84, 60.9].                       *)
(***************************************************************************)
Projections(trace) == {i \in 1..Len(trace) : trace[i].fn = "proj4"}

CheckedBefore(trace, i) ==
    \E j \in 1..(i - 1) : trace[j].fn = "_checkBounds" /\ trace[j].valid

PointInExtent(call) ==
    IF call.from = "EPSG:27700"
    THEN InProjectedExtent([ea |-> call.point[1], no |-> call.point[2]])
    ELSE InGeographicExtent([lng |-> call.point[1], lat |-> call.point[2]])

ProjectsOnceChecked(trace) ==
    /\ Cardinality(Projections(trace)) <= 1
    /\ \A i \in Projections(trace) : CheckedBefore(trace, i)

ProjectsInExtent(trace) == \A i \in Projections(trace) : PointInExtent(trace[i])

C18_ValidationPrecedesProjection ==
    /\ ProjectsOnceChecked(calls) /\ ProjectsInExtent(calls)
    /\ \A x \in inflight : ProjectsOnceChecked(x.calls) /\ ProjectsInExtent(x.calls)

(***************************************************************************)
(* C19  Decoded coordinates stay inside the projected extent.  Every       *)
(* coordinate that fromGridRef returns has 0 <= ea <= 699999.9 and         *)
(* 0 <= no <= 1299999.9.                                                   *)
(***************************************************************************)
C19_DecodedInsideExtent ==
    /\ (op = "fromGridRef" /\ result # Empty) => InProjectedExtent(result)
    /\ \A x \in inflight :
          (x.calls # <<>> /\ x.calls[1].fn = "fromGridRef" /\ x.calls[1].result # Empty)
          => InProjectedExtent(x.calls[1].result)

(***************************************************************************)
(* C20  Tile indices stay inside the table for accepted input.  For every  *)
(* finite coordinate that passes the projected bounds check,               *)
(* x = floor(ea / 100000) is in 0..6 and y = floor(no / 100000) in 0..12,  *)
(* prefixes[y][x] is a two-letter code whose first letter is one of S, T,  *)
(* N, O, H, J, and the residuals floor(ea % 100000) and                    *)
(* floor(no % 100000) are in 0..99999.                                     *)
(***************************************************************************)
PassedProjectedCheck ==
    /\ op = "toGridRef"
    /\ HasProjectedShape(coordinates)
    /\ IsFinite(coordinates.ea) /\ IsFinite(coordinates.no)
    /\ calls[1].fn = "_checkBounds" /\ calls[1].valid

Residual(a) == (a.v % Band) \div Unit

C20_TileIndicesInTable ==
    PassedProjectedCheck
    => LET x == coordinates.ea.v \div Band
           y == coordinates.no.v \div Band
       IN /\ x \in 0..6 /\ y \in 0..12
          /\ result.tag = "gridref"
          /\ result.letters = prefixes[y + 1][x + 1]
          /\ Len(result.letters) = 2
          /\ result.letters[1] \in {"S", "T", "N", "O", "H", "J"}
          /\ result.letters[2] \in Range(UpperLetters)
          /\ Residual(coordinates.ea) \in 0..99999
          /\ Residual(coordinates.no) \in 0..99999
          /\ DigitsValue(result.eastings) = Residual(coordinates.ea)
          /\ DigitsValue(result.northings) = Residual(coordinates.no)

\* toGridRef has looked up the last tile of the table, for a coordinate in
\* the corner of the extent.
C20_Witness ==
    /\ PassedProjectedCheck
    /\ coordinates.ea.v \div Band = 6
    /\ coordinates.no.v \div Band = 12
    /\ result.letters = <<"J", "M">>
    /\ result.eastings = <<"9", "9", "9", "9", "9">>

(***************************************************************************)
(* C21  Missing required parameters.  A request to /api/to-latlng or       *)
(* /api/to-gridref without ea or without no, to /api/from-latlng without   *)
(* lat or without lng, to /api/from-gridref or /api/gridref-to-latlng      *)
(* without gridref (a POST whose body is not valid JSON has no parameter   *)
(* at all) is answered with status 400 and an error message, and no method *)
(* of the transformer is invoked for it.                                   *)
(***************************************************************************)
\* The parameters the request carries do not include all the required ones.
MissingRequired(req) ==
    /\ IsApiRequest(req)
    /\ ~(RequiredParameters(req.path) \subseteq ObjectKeys(getRequestData(req)))

Rejected(x) ==
    /\ x.response.status = 400
    /\ ObjectKeys(x.response.body) = {"error"}
    /\ x.calls = <<>>

C21_MissingRejected ==
    \A x \in inflight :
       (Answered(x) /\ MissingRequired(x.request)) => Rejected(x)

(***************************************************************************)
(* C22  The decimals argument never makes a projector fail.  For an input  *)
(* inside the extent and every integer decimals, negative ones and ones    *)
(* above 100 included, toLatLng, fromLatLng and gridRefToLatLng return a   *)
(* populated result or {} and do not throw, so that a request with such a  *)
(* decimals parameter is answered with 200 or 400 and never with 500.      *)
(***************************************************************************)
\* The input of the projector named fn lies inside the extent it is tested
\* against: c for the two coordinate methods, g for the grid reference.
InBoundsInput(fn, c, g) ==
    CASE fn = "toLatLng" -> HasProjectedShape(c) /\ InProjectedExtent(c)
      [] fn = "fromLatLng" -> HasGeographicShape(c) /\ InGeographicExtent(c)
      [] fn = "gridRefToLatLng" ->
            fromGridRef(g).tag = "en" /\ InProjectedExtent(fromGridRef(g))
      [] OTHER -> FALSE

Projectors == {"toLatLng", "fromLatLng", "gridRefToLatLng"}

\* The exchange reached a projector with an in-bounds input and an integer
\* decimals.
ProjectorReached(x) ==
    /\ x.calls # <<>>
    /\ x.calls[1].fn \in Projectors
    /\ IsInteger(x.calls[1].decimals)
    /\ InBoundsInput(x.calls[1].fn, x.calls[1].argument,
                     IF x.calls[1].fn = "gridRefToLatLng"
                     THEN x.calls[1].argument.gridref ELSE <<>>)

C22_DecimalsNeverThrow ==
    /\ (op \in Projectors /\ IsInteger(decimals) /\ InBoundsInput(op, coordinates, gridref))
       => result.tag # "throw"
    /\ \A x \in inflight :
          (Answered(x) /\ ProjectorReached(x)) => x.response.status \in {200, 400}

====
